---- MODULE Spec2Model ----
(***************************************************************************)
(* Model of src/main.py: a Telegram bot that parses a pasted lead, appends *)
(* it as one row of a Google Sheet and then drives a button/text editing   *)
(* menu over that row.                                                     *)
(*                                                                         *)
(* Strings.  A Python str is modelled as a sequence of lexemes.  A lexeme  *)
(* is a TLA+ string standing for a run of characters of one kind: a word   *)
(* ("Ivan", "src"), one digit ("7"), one punctuation character (":", "+",  *)
(* ";"), one whitespace character (" ", "\n") or one field label of the    *)
(* lead form ("Telefon:").  The empty str is << >>.  Every text is chunked *)
(* the same way, so equality of strs is equality of sequences.  The source *)
(* texts are Russian; the model writes them in Latin transliteration.      *)
(***************************************************************************)
EXTENDS Naturals, Sequences, FiniteSets, TLC

----------------------------------------------------------------------------
(* str helpers                                                             *)

Spaces == {" ", "\n"}

DigitLex == <<"0", "1", "2", "3", "4", "5", "6", "7", "8", "9">>

Digits == {DigitLex[i] : i \in 1..10}

IsDigit(c) == c \in Digits

DigitVal(c) == (CHOOSE i \in 1..10 : DigitLex[i] = c) - 1

(* str.lower() on one lexeme: the mixed-case words of the vocabulary.      *)
LowerLex(c) ==
  CASE c = "Telegram" -> "telegram"
    [] c = "Drugoy" -> "drugoy"
    [] c = "WhatsApp" -> "whatsapp"
    [] c = "Viber" -> "viber"
    [] c = "Line" -> "line"
    [] c = "Net" -> "net"
    [] c = "Da" -> "da"
    [] c = "Da, kontaktirovat na den ranshe" -> "da, kontaktirovat na den ranshe"
    [] c = "Progrev: soglasie na detali" -> "progrev: soglasie na detali"
    [] c = "Progrev: perenos" -> "progrev: perenos"
    [] c = "Vysokiy" -> "vysokiy"
    [] c = "Sredniy" -> "sredniy"
    [] c = "Nizkiy" -> "nizkiy"
    [] c = "Uspeh" -> "uspeh"
    [] c = "Neudacha" -> "neudacha"
    [] c = "Povtor kasaniya" -> "povtor kasaniya"
    [] c = "GMT+1" -> "gmt+1"
    [] c = "GMT+3" -> "gmt+3"
    [] c = "GMT-5" -> "gmt-5"
    [] c = "Ivan" -> "ivan"
    [] c = "Ana" -> "ana"
    [] OTHER -> c

Lower(s) == [i \in 1..Len(s) |-> LowerLex(s[i])]

RECURSIVE LStrip(_)
LStrip(s) == IF s # << >> /\ Head(s) \in Spaces THEN LStrip(Tail(s)) ELSE s

RECURSIVE RStrip(_)
RStrip(s) ==
  IF s # << >> /\ s[Len(s)] \in Spaces THEN RStrip(SubSeq(s, 1, Len(s) - 1)) ELSE s

(* str.strip()                                                             *)
Strip(s) == RStrip(LStrip(s))

(* str.split(sep) for a one-character separator                            *)
RECURSIVE Split(_, _)
Split(s, sep) ==
  IF \A i \in 1..Len(s) : s[i] # sep
  THEN <<s>>
  ELSE LET i == CHOOSE k \in 1..Len(s) : s[k] = sep /\ \A j \in 1..(k - 1) : s[j] # sep
       IN  <<SubSeq(s, 1, i - 1)>> \o Split(SubSeq(s, i + 1, Len(s)), sep)

(* str(n) of a non-negative int, as in an f-string                         *)
RECURSIVE IntToStr(_)
IntToStr(n) ==
  IF n < 10 THEN <<DigitLex[n + 1]>> ELSE IntToStr(n \div 10) \o <<DigitLex[(n % 10) + 1]>>

(* int(s) succeeds on a non-empty run of digits                            *)
IsIntStr(s) == s # << >> /\ \A i \in 1..Len(s) : IsDigit(s[i])

RECURSIVE StrToInt(_)
StrToInt(s) ==
  IF Len(s) = 1 THEN DigitVal(s[1])
  ELSE 10 * StrToInt(SubSeq(s, 1, Len(s) - 1)) + DigitVal(s[Len(s)])

----------------------------------------------------------------------------
(* Field tables                                                            *)

NCOLS == 32

REQUIRED_HEADERS ==
  << <<"Imya klienta">>, <<"Telefon">>, <<"Telegram">>, <<"WhatsApp">>, <<"Email">>,
     <<"Messendzher">>, <<"Purpose">>, <<"Payment method">>, <<"UTM">>, <<"Project">>,
     <<"Region">>, <<"Zametki">>, <<"Istochnik lida">>, <<"Chasovoy poyas">>,
     <<"Dostupnost v messendzherah">>, <<"Segmentaciya">>, <<"Chasovoy poyas (GMT)">>,
     <<"Zvonok IP-telefoniey">>, <<"Alternativnyy nomer">>, <<"Lichnyy nomer">>,
     <<"Soobshchenie v messendzhery (Povtornoe kasanie)">>, <<"Perenos vstrechi">>,
     <<"Progrev / progress">>, <<"Interes">>, <<"Rezultat (CRM)">>,
     <<"Zadacha na povtor">>, <<"Byudzhet">>, <<"Cel">>, <<"Predpochteniya">>,
     <<"Videozvonok / osmotr obekta">>, <<"Otpravit materialy lidu">>,
     <<"Svyazatsya cherez messendzher">> >>

YesNo == [c \in {"yes", "no"} |-> IF c = "yes" THEN <<"Da">> ELSE <<"Net">>]

(* OPTIONS_MAP[field code][option code] = canonical display value          *)
OPTIONS_MAP ==
  [f \in {"src", "tz", "msg_avail", "seg", "ip_call", "alt_phone_yesno",
          "pers_phone_yesno", "meet_postpone", "vid_call", "send_mat", "progress",
          "interest", "crm_result", "task_repeat", "messenger_call"} |->
    CASE f = "src" -> [c \in {"tg", "other"} |->
                         IF c = "tg" THEN <<"Telegram">> ELSE <<"Drugoy">>]
      [] f = "tz" -> [c \in {"gmt3", "other"} |->
                         IF c = "gmt3" THEN <<"GMT+3">> ELSE <<"Drugoy">>]
      [] f = "msg_avail" -> [c \in {"tg", "wa", "vb", "ln", "none"} |->
                         CASE c = "tg" -> <<"Telegram">>
                           [] c = "wa" -> <<"WhatsApp">>
                           [] c = "vb" -> <<"Viber">>
                           [] c = "ln" -> <<"Line">>
                           [] c = "none" -> <<"Net">>]
      [] f = "seg" -> [c \in {"buyer", "investor"} |->
                         IF c = "buyer" THEN <<"pokupatel">> ELSE <<"investor">>]
      [] f = "meet_postpone" -> [c \in {"earlier", "no"} |->
                         IF c = "earlier" THEN <<"Da, kontaktirovat na den ranshe">>
                         ELSE <<"Net">>]
      [] f = "progress" -> [c \in {"details", "transfer"} |->
                         IF c = "details" THEN <<"Progrev: soglasie na detali">>
                         ELSE <<"Progrev: perenos">>]
      [] f = "interest" -> [c \in {"high", "med", "low"} |->
                         CASE c = "high" -> <<"Vysokiy">>
                           [] c = "med" -> <<"Sredniy">>
                           [] c = "low" -> <<"Nizkiy">>]
      [] f = "crm_result" -> [c \in {"success", "fail", "repeat"} |->
                         CASE c = "success" -> <<"Uspeh">>
                           [] c = "fail" -> <<"Neudacha">>
                           [] c = "repeat" -> <<"Povtor kasaniya">>]
      [] OTHER -> YesNo]

(* FIELD_TO_COL[field code] = 1-indexed column                             *)
FIELD_TO_COL ==
  [f \in {"notes", "src", "tz", "msg_avail", "seg", "ip_call", "alt_phone_yesno",
          "pers_phone_yesno", "msg_touch", "meet_postpone", "progress", "interest",
          "crm_result", "task_repeat", "budget", "goal", "prefs", "vid_call",
          "send_mat", "messenger_call"} |->
    CASE f = "notes" -> 12
      [] f = "src" -> 13
      [] f = "tz" -> 14
      [] f = "msg_avail" -> 15
      [] f = "seg" -> 16
      [] f = "ip_call" -> 18
      [] f = "alt_phone_yesno" -> 19
      [] f = "pers_phone_yesno" -> 20
      [] f = "msg_touch" -> 21
      [] f = "meet_postpone" -> 22
      [] f = "progress" -> 23
      [] f = "interest" -> 24
      [] f = "crm_result" -> 25
      [] f = "task_repeat" -> 26
      [] f = "budget" -> 27
      [] f = "goal" -> 28
      [] f = "prefs" -> 29
      [] f = "vid_call" -> 30
      [] f = "send_mat" -> 31
      [] f = "messenger_call" -> 32]

(* A field code or option code is a str; a table key is its single lexeme. *)
IsKey(s, table) == Len(s) = 1 /\ s[1] \in DOMAIN table

(* FIELD_TO_COL.get(code, 0)                                               *)
ColOf(code) == IF IsKey(code, FIELD_TO_COL) THEN FIELD_TO_COL[code[1]] ELSE 0

----------------------------------------------------------------------------
(* Lead parsing and validation                                             *)

(* The labels of the lead form, one lexeme each (FIELD_PATTERNS keys with  *)
(* the colon; the match is case-insensitive, so a label lexeme stands for  *)
(* the label in any case).                                                 *)
Label ==
  [f \in {"Imya klienta", "Telefon", "Telegram", "WhatsApp", "Email", "Messendzher",
          "Purpose", "Payment method", "UTM", "Project", "Region"} |->
    CASE f = "Imya klienta" -> "Imya klienta:"
      [] f = "Telefon" -> "Telefon:"
      [] f = "Telegram" -> "Telegram:"
      [] f = "WhatsApp" -> "WhatsApp:"
      [] f = "Email" -> "Email:"
      [] f = "Messendzher" -> "Messendzher:"
      [] f = "Purpose" -> "Purpose:"
      [] f = "Payment method" -> "Payment method:"
      [] f = "UTM" -> "UTM:"
      [] f = "Project" -> "Project:"
      [] f = "Region" -> "Region:"]

(* \w: word lexemes and digits                                             *)
Words == {"Ivan", "Ana", "Telegram", "WhatsApp", "Dubai", "a", "b", "x", "y", "com"}

IsWord(c) == c \in Words \/ IsDigit(c)

IsEmailChar(c) == IsWord(c) \/ c = "." \/ c = "-"

StartsWith(s, p) == Len(s) >= Len(p) /\ SubSeq(s, 1, Len(p)) = p

(* length of the longest prefix of a sequence of flags that is all TRUE    *)
RunLen(ok) ==
  IF \A i \in 1..Len(ok) : ok[i] THEN Len(ok)
  ELSE (CHOOSE k \in 1..Len(ok) : ~ok[k] /\ \A j \in 1..(k - 1) : ok[j]) - 1

(* length of the longest prefix of s made of digits, of word lexemes, of   *)
(* [\w\.-] lexemes, of lexemes other than a newline                        *)
DigitRun(s) == RunLen([i \in 1..Len(s) |-> IsDigit(s[i])])

WordRun(s) == RunLen([i \in 1..Len(s) |-> IsWord(s[i])])

EmailRun(s) == RunLen([i \in 1..Len(s) |-> IsEmailChar(s[i])])

LineRun(s) == RunLen([i \in 1..Len(s) |-> s[i] # "\n"])

Min(a, b) == IF a < b THEN a ELSE b

(* text after the label at position i                                      *)
After(t, i) == SubSeq(t, i + 1, Len(t))

(* group 1 of  label \s* (.+)  matched at the label at i; << >> when the   *)
(* pattern does not match there                                            *)
AnyLineAt(t, i) ==
  LET r == LStrip(After(t, i))
  IN  SubSeq(r, 1, LineRun(r))

(* group 1 of  label \s* (\+?\d{6,15})  at the label at i, << >> if none   *)
PhoneAt(t, i) ==
  LET r == LStrip(After(t, i))
      p == IF r # << >> /\ r[1] = "+" THEN 1 ELSE 0
      d == DigitRun(SubSeq(r, p + 1, Len(r)))
  IN  IF d >= 6 THEN SubSeq(r, 1, p + Min(d, 15)) ELSE << >>

(* group 1 of  label \s* @?(\w+)  at the label at i, << >> if none         *)
WordAt(t, i) ==
  LET r == LStrip(After(t, i))
      p == IF r # << >> /\ r[1] = "@" THEN 1 ELSE 0
      w == SubSeq(r, p + 1, Len(r))
  IN  SubSeq(w, 1, WordRun(w))

(* group 1 of  label \s* ([\w\.-]+@[\w\.-]+\.\w+)?  at the label at i:     *)
(* local part, "@", then the domain up to its last dot that has a lexeme   *)
(* before it and a word after it, then that word run; << >> if none        *)
EmailAt(t, i) ==
  LET r == LStrip(After(t, i))
      l == EmailRun(r)
      dom == SubSeq(r, l + 2, Len(r))
      n == EmailRun(dom)
      dots == {p \in 2..(n - 1) : dom[p] = "." /\ IsWord(dom[p + 1])}
  IN  IF l >= 1 /\ Len(r) > l /\ r[l + 1] = "@" /\ dots # {}
      THEN LET p == CHOOSE q \in dots : \A q2 \in dots : q2 <= q
               tld == SubSeq(dom, p + 1, n)
           IN  SubSeq(r, 1, l + 1 + p + WordRun(tld))
      ELSE << >>

Occurrences(t, f) == {i \in 1..Len(t) : t[i] = Label[f]}

GroupAt(t, f, i) ==
  CASE f \in {"Telefon", "WhatsApp"} -> PhoneAt(t, i)
    [] f = "Telegram" -> WordAt(t, i)
    [] f = "Email" -> EmailAt(t, i)
    [] OTHER -> AnyLineAt(t, i)

(* regex.search: the leftmost label occurrence at which the pattern        *)
(* matches.  The Email pattern matches at every occurrence (its group is   *)
(* optional); the others match where their group is non-empty.             *)
parse_lead_text(text) ==
  [f \in DOMAIN Label |->
    LET hits == {i \in Occurrences(text, f) : f = "Email" \/ GroupAt(text, f, i) # << >>}
    IN  IF hits = {} THEN << >>
        ELSE Strip(GroupAt(text, f, CHOOSE i \in hits : \A j \in hits : i <= j))]

(* re.match(r'^\+?\d{6,15}$', phone)                                       *)
validate_phone(phone) ==
  IF phone = << >> THEN TRUE
  ELSE LET p == IF phone[1] = "+" THEN 1 ELSE 0
           d == SubSeq(phone, p + 1, Len(phone))
       IN  Len(d) >= 6 /\ Len(d) <= 15 /\ \A i \in 1..Len(d) : IsDigit(d[i])

(* re.match(r"[^@]+@[^@]+\.[^@]+", email): matched from the start, need    *)
(* not reach the end                                                       *)
validate_email(email) ==
  IF email = << >> THEN TRUE
  ELSE \E a \in 2..Len(email) :
         /\ email[a] = "@"
         /\ \A j \in 1..(a - 1) : email[j] # "@"
         /\ \E p \in (a + 2)..(Len(email) - 1) :
              /\ email[p] = "."
              /\ \A j \in (a + 1)..(p + 1) : email[j] # "@"

(* COUNTRY_TZ_MAP keys in the order sorted(key=len, reverse=True) visits   *)
(* them, with their labels                                                 *)
COUNTRY_TZ_MAP ==
  << [ccode |-> <<"3", "4">>, tz |-> <<"GMT+1">>],
     [ccode |-> <<"7">>, tz |-> <<"GMT+3">>],
     [ccode |-> <<"1">>, tz |-> <<"GMT-5">>] >>

guess_tz_by_phone_any_sign(phone) ==
  LET digits == IF StartsWith(phone, <<"+">>) THEN Tail(phone) ELSE phone
      hits == {k \in 1..Len(COUNTRY_TZ_MAP) : StartsWith(digits, COUNTRY_TZ_MAP[k].ccode)}
  IN  IF hits = {} THEN <<"Drugoy">>
      ELSE COUNTRY_TZ_MAP[CHOOSE k \in hits : \A j \in hits : k <= j].tz

guess_tz_by_phone(phone) ==
  IF ~StartsWith(phone, <<"+">>) THEN <<"Drugoy">>
  ELSE LET digits == Tail(phone)
           hits == {k \in 1..Len(COUNTRY_TZ_MAP) : StartsWith(digits, COUNTRY_TZ_MAP[k].ccode)}
       IN  IF hits = {} THEN <<"Drugoy">>
           ELSE COUNTRY_TZ_MAP[CHOOSE k \in hits : \A j \in hits : k <= j].tz

guess_region_by_phone(phone) ==
  IF ~StartsWith(phone, <<"+">>) THEN <<"Unknown">>
  ELSE LET digits == Tail(phone)
       IN  IF StartsWith(digits, <<"3", "4">>) THEN <<"Spain">>
           ELSE IF StartsWith(digits, <<"7">>) THEN <<"Russia">>
           ELSE IF StartsWith(digits, <<"1">>) THEN <<"USA">>
           ELSE <<"Unknown">>

(* "\n".join(lines) for a non-empty list of strs                          *)
RECURSIVE Join(_, _)
Join(lines, sep) ==
  IF Len(lines) = 1 THEN lines[1] ELSE lines[1] \o <<sep>> \o Join(Tail(lines), sep)

render_chunk_last_separator(chunk) ==
  IF \E i \in 1..Len(chunk) : chunk[i] = "="
  THEN LET i == CHOOSE k \in 1..Len(chunk) :
                  chunk[k] = "=" /\ \A j \in (k + 1)..Len(chunk) : chunk[j] # "="
       IN  Strip(SubSeq(chunk, 1, i - 1)) \o <<" ", "=", " ">>
             \o Strip(SubSeq(chunk, i + 1, Len(chunk)))
  ELSE chunk

(* the line parse_utm_details appends for a non-empty chunk: "k = v" with  *)
(* k, v = chunk.split('=', 1) stripped when the chunk has a '=', else the  *)
(* chunk                                                                   *)
render_chunk(chunk) ==
  IF \E i \in 1..Len(chunk) : chunk[i] = "="
  THEN LET i == CHOOSE k \in 1..Len(chunk) :
                  chunk[k] = "=" /\ \A j \in 1..(k - 1) : chunk[j] # "="
       IN  Strip(SubSeq(chunk, 1, i - 1)) \o <<" ", "=", " ">>
             \o Strip(SubSeq(chunk, i + 1, Len(chunk)))
  ELSE chunk

(* the inner loop of parse_utm_details over amp_parts                      *)
RECURSIVE chunk_lines(_)
chunk_lines(amp_parts) ==
  IF amp_parts = << >> THEN << >>
  ELSE LET chunk == Strip(Head(amp_parts))
       IN  (IF chunk = << >> THEN << >> ELSE <<render_chunk(chunk)>>)
             \o chunk_lines(Tail(amp_parts))

(* the outer loop of parse_utm_details over pipe_parts                     *)
RECURSIVE part_lines(_)
part_lines(pipe_parts) ==
  IF pipe_parts = << >> THEN << >>
  ELSE chunk_lines(Split(Strip(Head(pipe_parts)), "&")) \o part_lines(Tail(pipe_parts))

parse_utm_details(utm_str) ==
  IF utm_str = << >> THEN <<"UTM-dannye: (ne ukazany)">>
  ELSE LET lines == part_lines(Split(utm_str, "|"))
       IN  IF lines = << >> THEN <<"UTM-dannye: (pusto)">>
           ELSE <<"UTM-dannye:", "\n">> \o Join(lines, "\n")

----------------------------------------------------------------------------
(* Menu rendering                                                          *)

(* callback_data f"{field}:{option}:{row_index}"                           *)
Data(f, o, row_index) == <<f, ":", o, ":">> \o IntToStr(row_index)

get_val_case_sensitive(row_vals, field_code) ==
  LET col == ColOf(field_code)
  IN  IF col < 1 \/ col > Len(row_vals) THEN << >>
      ELSE Strip(row_vals[col])

(* get_val inside show_main_menu                                           *)
get_val(row_vals, field_code) ==
  LET col == ColOf(field_code)
  IN  IF col < 1 \/ col > Len(row_vals) THEN << >>
      ELSE Lower(Strip(row_vals[col]))

Icon(b) == IF b THEN "selected" ELSE "unselected"

(* a section separator: InlineKeyboardButton(title, callback_data="noop")  *)
Sep(title) == [label |-> title, icon |-> "none", callback_data |-> <<"noop">>]

(* an option button; lit is the lower-case literal the code compares with  *)
Opt(title, row_vals, lit, f, o, row_index) ==
  [label |-> title, icon |-> Icon(get_val(row_vals, <<f>>) = <<lit>>),
   callback_data |-> Data(f, o, row_index)]

InpByTitle(title, code, row_index) ==
  [label |-> title, icon |-> "none", callback_data |-> Data("input", title, row_index)]

(* a free-text trigger                                                     *)
Inp(title, code, row_index) ==
  [label |-> title, icon |-> "none", callback_data |-> Data("input", code, row_index)]

(* the keyboard show_main_menu builds: a list of button rows               *)
Keyboard(row_vals, row_index) ==
  << <<Sep("(1) Podgotovka k kontaktu")>>,
     <<Opt("Istochnik: Telegram", row_vals, "telegram", "src", "tg", row_index),
       Opt("Drugoy", row_vals, "drugoy", "src", "other", row_index)>>,
     <<Opt("Tg", row_vals, "telegram", "msg_avail", "tg", row_index),
       Opt("WA", row_vals, "whatsapp", "msg_avail", "wa", row_index),
       Opt("Viber", row_vals, "viber", "msg_avail", "vb", row_index)>>,
     <<Opt("Line", row_vals, "line", "msg_avail", "ln", row_index),
       Opt("Net", row_vals, "net", "msg_avail", "none", row_index)>>,
     <<Opt("Segmentaciya: pokupatel", row_vals, "pokupatel", "seg", "buyer", row_index),
       Opt("investor", row_vals, "investor", "seg", "investor", row_index)>>,
     <<Sep("(2) Pervyy kontakt")>>,
     <<Opt("Zvonok IP: Da", row_vals, "da", "ip_call", "yes", row_index),
       Opt("Net", row_vals, "net", "ip_call", "no", row_index)>>,
     <<Opt("Alternativnyy nomer: Da", row_vals, "da", "alt_phone_yesno", "yes", row_index),
       Opt("Net", row_vals, "net", "alt_phone_yesno", "no", row_index)>>,
     <<Opt("Lichnyy nomer: Da", row_vals, "da", "pers_phone_yesno", "yes", row_index),
       Opt("Net", row_vals, "net", "pers_phone_yesno", "no", row_index)>>,
     <<Opt("Svyazatsya cherez messendzher: Da", row_vals, "da", "messenger_call", "yes", row_index),
       Opt("Net", row_vals, "net", "messenger_call", "no", row_index)>>,
     <<Sep("(3) Prodolzhenie")>>,
     <<Opt("Perenos vstrechi: Den ranshe", row_vals, "da, kontaktirovat na den ranshe",
           "meet_postpone", "earlier", row_index),
       Opt("Net", row_vals, "net", "meet_postpone", "no", row_index)>>,
     <<Opt("Progrev: detali", row_vals, "progrev: soglasie na detali",
           "progress", "details", row_index),
       Opt("Progrev: perenos", row_vals, "progrev: perenos", "progress", "transfer", row_index)>>,
     <<Opt("Interes: Vysokiy", row_vals, "vysokiy", "interest", "high", row_index),
       Opt("Sredniy", row_vals, "sredniy", "interest", "med", row_index),
       Opt("Nizkiy", row_vals, "nizkiy", "interest", "low", row_index)>>,
     <<Opt("Rezultat: Uspeh", row_vals, "uspeh", "crm_result", "success", row_index),
       Opt("Neudacha", row_vals, "neudacha", "crm_result", "fail", row_index),
       Opt("Povtor", row_vals, "povtor kasaniya", "crm_result", "repeat", row_index)>>,
     <<Opt("Zadacha na povtor: Da", row_vals, "da", "task_repeat", "yes", row_index),
       Opt("Net", row_vals, "net", "task_repeat", "no", row_index)>>,
     <<Sep("(4) Povtornoe kasanie")>>,
     <<Inp("Soobshchenie (vvesti)", "msg_touch", row_index)>>,
     <<Sep("(5) Obshchenie s lidom")>>,
     <<Inp("Zametki (dop. zapis)", "notes", row_index)>>,
     <<Inp("Byudzhet (vvesti)", "budget", row_index),
       Inp("Cel (vvesti)", "goal", row_index)>>,
     <<Inp("Predpochteniya (vvesti)", "prefs", row_index)>>,
     <<Sep("(6) Finalizaciya")>>,
     <<Opt("Videozvonok: Da", row_vals, "da", "vid_call", "yes", row_index),
       Opt("Net", row_vals, "net", "vid_call", "no", row_index)>>,
     <<Opt("Otpravit materialy: Da", row_vals, "da", "send_mat", "yes", row_index),
       Opt("Net", row_vals, "net", "send_mat", "no", row_index)>>,
     <<[label |-> "Zavershit", icon |-> "none",
        callback_data |-> Data("finish", "_", row_index)]>> >>

(* all buttons of a keyboard                                               *)
Buttons(kb) == UNION {{kb[i][j] : j \in 1..Len(kb[i])} : i \in 1..Len(kb)}

----------------------------------------------------------------------------
(* State                                                                   *)

VARIABLES
  sheet,      \* the worksheet: a sequence of rows, row 1 the header row
  conv,       \* ConversationHandler state of each user: END (no conversation),
              \* BULK_DATA or EDITING
  user_data,  \* context.user_data of each user: the editing_field/editing_row keys
  last,       \* the last update: who sent what, which handler took it, the
              \* replies sent and what it did to the store
  prev,       \* the sender and the store effect of the update before the last one
  steps,      \* the number of updates so far
  shown,      \* the rows each user has been sent a menu for: the menus in the
              \* user's chat, whose buttons the user can press
  owner,      \* for each row of the sheet the user whose lead text appended it
              \* (0 for the header row)
  rendered,   \* the menus show_main_menu sent since the last store write, each
              \* with the row it was rendered for
  AUTHORIZED_USERS,  \* the allow-list read from the environment at start-up
  leads,      \* the lead texts the users paste
  arg,        \* the str a helper function is applied to on its own
  out         \* what the helper functions returned for arg

(* the variables of the running bot                                        *)
botvars ==
  <<sheet, conv, user_data, last, prev, steps, shown, owner, rendered,
    AUTHORIZED_USERS, leads>>

vars == <<botvars, arg, out>>

(* no helper function has been applied                                     *)
NoOut ==
  [tz_done |-> FALSE, tz |-> << >>, region_done |-> FALSE, region |-> << >>,
   utm_done |-> FALSE, utm |-> << >>,
   menu_done |-> FALSE, menu |-> << >>, press |-> << >>, before |-> << >>,
   replies |-> << >>, ud |-> [has |-> FALSE, editing_field |-> << >>, editing_row |-> 0],
   text_done |-> FALSE]

(* bound of the explored runs: the number of updates                       *)
MaxSteps == 5

Users == {1, 2}

(* context.user_data before any key is set                                 *)
NoUserData == [has |-> FALSE, editing_field |-> << >>, editing_row |-> 0]

(* the store effect of an update that wrote nothing                        *)
NoEffect ==
  [op |-> "none", field |-> << >>, opt |-> << >>, row |-> 0, col |-> 0,
   before |-> << >>, arg |-> << >>]

(* the store calls of a handler that may raise; at most one per update     *)
IntakeFails == {"none", "append_row", "get_all_values", "row_values"}

(* "reply" is the Telegram call that follows the cell write                *)
EditFails == {"none", "cell", "update_cell", "reply", "row_values"}

check_authorized_anyone(u) == TRUE

(* check_authorized: user_id in AUTHORIZED_USERS                           *)
check_authorized(u) == u \in AUTHORIZED_USERS

(* sheet.cell(row, col).value or ""                                        *)
CellValue(sh, row, col) ==
  IF row \in 1..Len(sh) /\ col \in 1..Len(sh[row]) THEN sh[row][col] ELSE << >>

UpdateCellAndNext(sh, row, col, value) ==
  [sh EXCEPT ![row][col] = value, ![row][col + 1] = value]

(* sheet.update_cell(row, col, value)                                      *)
UpdateCell(sh, row, col, value) == [sh EXCEPT ![row][col] = value]

(* what a handler run yields: the returned state ("None" when the handler  *)
(* returns nothing or raises), the store, the user data, the replies, the  *)
(* row a menu was rendered for (0 if none) and its keyboard, the call that  *)
(* raised ("none" if none did), the store effect                           *)
Result(ret, sh, ud, msgs, menu, raised, eff) ==
  [ret |-> ret, sheet |-> sh, ud |-> ud, msgs |-> msgs, menu_row |-> menu.menu_row,
   menu |-> menu.menu, raised |-> raised, eff |-> eff]

(* no menu was rendered                                                    *)
NoMenu == [msgs |-> << >>, menu_row |-> 0, menu |-> << >>, raised |-> "none"]

(* a handler run that sends one reply and touches nothing                  *)
Reply(ret, sh, ud, msg) == Result(ret, sh, ud, <<msg>>, NoMenu, "none", NoEffect)

(* sheet.row_values(row)                                                   *)
RowValues(sh, row) == IF row \in 1..Len(sh) THEN sh[row] ELSE << >>

show_main_menu_stale(sh, row_index, fail) ==
  IF fail = "row_values"
  THEN [NoMenu EXCEPT !.msgs = <<"menu_read_error">>, !.raised = "row_values"]
  ELSE [msgs |-> <<"menu">>, menu_row |-> row_index,
        menu |-> Keyboard(RowValues(sheet, row_index), row_index), raised |-> "none"]

(* show_main_menu on the store sh: the replies it sends, the row it        *)
(* rendered and the keyboard it built from sheet.row_values(row_index),    *)
(* the call that raised                                                    *)
show_main_menu(sh, row_index, fail) ==
  IF fail = "row_values"
  THEN [NoMenu EXCEPT !.msgs = <<"menu_read_error">>, !.raised = "row_values"]
  ELSE [msgs |-> <<"menu">>, menu_row |-> row_index,
        menu |-> Keyboard(RowValues(sh, row_index), row_index), raised |-> "none"]

----------------------------------------------------------------------------
(* Intake: process_lead                                                    *)

(* phone_candidate = lead.get("Telefon") or lead.get("WhatsApp")           *)
PhoneCandidate(lead) ==
  IF lead["Telefon"] # << >> THEN lead["Telefon"] ELSE lead["WhatsApp"]

ValidateNoContactCheck(lead) ==
  IF lead["Imya klienta"] = << >> THEN "no_name" ELSE "ok"

(* the validation chain of process_lead: the reply of the first check that *)
(* rejects the lead, "ok" if none does                                     *)
Validate(lead) ==
  LET phone_candidate == PhoneCandidate(lead)
  IN  IF lead["Imya klienta"] = << >> THEN "no_name"
      ELSE IF phone_candidate = << >> /\ lead["Messendzher"] = << >> THEN "no_contact"
      ELSE IF phone_candidate # << >> /\ ~validate_phone(phone_candidate) THEN "bad_phone"
      ELSE IF lead["Email"] # << >> /\ ~validate_email(lead["Email"]) THEN "bad_email"
      ELSE "ok"

ValidationReplies == {"no_name", "no_contact", "bad_phone", "bad_email"}

RejectStateWrong == "EDITING"

(* the state process_lead returns with a validation reply                  *)
RejectState == "BULK_DATA"

(* tz_auto: inferred from the phone candidate when there is one            *)
tz_auto(lead) ==
  LET phone_candidate == PhoneCandidate(lead)
  IN  IF phone_candidate # << >> THEN guess_tz_by_phone(phone_candidate) ELSE << >>

region_auto_inferred_only(lead) ==
  LET phone_candidate == PhoneCandidate(lead)
  IN  IF phone_candidate # << >> THEN guess_region_by_phone(phone_candidate) ELSE << >>

(* region_auto: the Region of the lead text; inferred from the phone       *)
(* candidate when the text gives none and there is a candidate             *)
region_auto(lead) ==
  LET phone_candidate == PhoneCandidate(lead)
  IN  IF lead["Region"] # << >> THEN lead["Region"]
      ELSE IF phone_candidate # << >> THEN guess_region_by_phone(phone_candidate)
      ELSE << >>

(* the 32-column row process_lead assembles                                *)
LeadRow(lead) ==
  [c \in 1..NCOLS |->
    CASE c = 1 -> lead["Imya klienta"]
      [] c = 2 -> lead["Telefon"]
      [] c = 3 -> lead["Telegram"]
      [] c = 4 -> lead["WhatsApp"]
      [] c = 5 -> lead["Email"]
      [] c = 6 -> lead["Messendzher"]
      [] c = 7 -> lead["Purpose"]
      [] c = 8 -> lead["Payment method"]
      [] c = 9 -> lead["UTM"]
      [] c = 10 -> lead["Project"]
      [] c = 11 -> region_auto(lead)
      [] c = 14 -> tz_auto(lead)
      [] OTHER -> << >>]

new_row_index_first_lead(sh) == 2

(* new_row_index = len(sheet.get_all_values())                             *)
new_row_index(sh) == Len(sh)

process_lead_run(sh, ud, u, text, fail) ==
  IF ~check_authorized(u)
  THEN Reply("BULK_DATA", sh, ud, "unauthorized")
  ELSE
    LET lead == parse_lead_text(Strip(text))
        verdict == Validate(lead)
        sh2 == Append(sh, LeadRow(lead))
        row_index == new_row_index(sh2)
        menu == show_main_menu(sh2, row_index, fail)
        appended == [NoEffect EXCEPT !.op = "append", !.row = Len(sh2)]
    IN  IF verdict # "ok"
        THEN Reply(RejectState, sh, ud, verdict)
        ELSE IF fail = "append_row"
        THEN Result("BULK_DATA", sh, ud, <<"append_error">>, NoMenu, "append_row", NoEffect)
        ELSE IF fail = "get_all_values"
        THEN \* raised outside any try: error_handler replies, no state returned
             Result("None", sh2, ud, <<"error">>, NoMenu, "get_all_values", appended)
        ELSE Result("EDITING", sh2, ud, <<"summary">> \o menu.msgs, menu, menu.raised,
                    appended)

----------------------------------------------------------------------------
(* Editing: handle_button and handle_text_input                            *)

ToggleValueNoDeselect(current_val, new_text) == new_text

(* the value a toggle writes: empty when the cell already holds the        *)
(* option's value (compared in lower case), else the option's value        *)
ToggleValue(current_val, new_text) ==
  IF Lower(current_val) = Lower(new_text) THEN << >> ELSE new_text

BadCallbackStateWrong == "BULK_DATA"

(* the state handle_button returns for a token that is not three parts     *)
BadCallbackState == "EDITING"

handle_button_run(sh, ud, u, token, fail) ==
  IF ~check_authorized(u)
  THEN Reply("BULK_DATA", sh, ud, "unauthorized")
  ELSE
    LET data == Split(token, ":")
    IN  IF Len(data) # 3
        THEN Reply(BadCallbackState, sh, ud, "bad_callback")
        ELSE
          LET field_code == data[1]
              short_code == data[2]
              row_str == data[3]
          IN  IF ~IsIntStr(row_str)
              THEN \* int(row_str) raises: error_handler replies
                   Reply("None", sh, ud, "error")
              ELSE
                LET row_idx == StrToInt(row_str)
                    col == ColOf(field_code)
                IN  IF field_code = <<"noop">>
                    THEN LET menu == show_main_menu(sh, row_idx, fail)
                         IN  Result("EDITING", sh, ud, menu.msgs, menu, menu.raised,
                                    NoEffect)
                    ELSE IF field_code = <<"finish">>
                    THEN Reply("BULK_DATA", sh, ud, "finish")
                    ELSE IF field_code = <<"input">>
                    THEN Reply("EDITING", sh,
                               [has |-> TRUE, editing_field |-> short_code,
                                editing_row |-> row_idx],
                               "ask_input")
                    ELSE IF col = 0
                    THEN Reply("EDITING", sh, ud, "unknown_field")
                    ELSE IF ~IsKey(field_code, OPTIONS_MAP)
                            \/ ~IsKey(short_code, OPTIONS_MAP[field_code[1]])
                    THEN Reply("EDITING", sh, ud, "unknown_option")
                    ELSE
                      LET new_text == OPTIONS_MAP[field_code[1]][short_code[1]]
                          current_val == CellValue(sh, row_idx, col)
                          new_val == ToggleValue(current_val, new_text)
                          eff == [op |-> "toggle", field |-> field_code,
                                  opt |-> short_code, row |-> row_idx, col |-> col,
                                  before |-> current_val, arg |-> new_text]
                          sh2 == UpdateCell(sh, row_idx, col, new_val)
                          menu == show_main_menu(sh2, row_idx, fail)
                      IN  IF fail = "cell"
                          THEN Result("EDITING", sh, ud, <<"read_error">>, NoMenu, "cell",
                                      NoEffect)
                          ELSE IF fail = "update_cell"
                          THEN Result("EDITING", sh, ud, <<"update_error">>, NoMenu,
                                      "update_cell", NoEffect)
                          ELSE IF fail = "reply"
                          THEN \* edit_message_text raises inside the try, after the write
                               Result("EDITING", sh2, ud, <<"update_error">>, NoMenu,
                                      "reply", eff)
                          ELSE Result("EDITING", sh2, ud, <<"updated">> \o menu.msgs, menu,
                                      menu.raised, eff)

NewTextValueOverwrite(code, existing_val, text) == text

(* the value a free-text submission writes: appended to the notes cell     *)
(* after "; " when that cell is not empty, else the text itself            *)
NewTextValue(code, existing_val, text) ==
  IF code = <<"notes">> /\ existing_val # << >>
  THEN existing_val \o <<";", " ">> \o text
  ELSE text

(* the state handle_text_input returns when a store call raises            *)
SaveErrorState == "BULK_DATA"

handle_text_input_run(sh, ud, u, message, fail) ==
  IF ~check_authorized(u)
  THEN Reply("BULK_DATA", sh, ud, "unauthorized")
  ELSE
    LET text == Strip(message)
        code == ud.editing_field
        row_idx == ud.editing_row
        col == ColOf(code)
        existing_val == CellValue(sh, row_idx, col)
        new_val == NewTextValue(code, existing_val, text)
        sh2 == UpdateCell(sh, row_idx, col, new_val)
        menu == show_main_menu(sh2, row_idx, fail)
        eff == [op |-> "text", field |-> code, opt |-> << >>, row |-> row_idx,
                col |-> col, before |-> existing_val, arg |-> text]
    IN  IF ~ud.has \/ code = << >> \/ row_idx = 0
        THEN Reply("BULK_DATA", sh, ud, "no_pending")
        ELSE IF col < 1
        THEN Reply("BULK_DATA", sh, ud, "bad_field")
        ELSE IF code = <<"notes">> /\ fail = "cell"
        THEN Result(SaveErrorState, sh, ud, <<"save_error">>, NoMenu, "cell", NoEffect)
        ELSE IF fail = "update_cell"
        THEN Result(SaveErrorState, sh, ud, <<"save_error">>, NoMenu, "update_cell",
                    NoEffect)
        ELSE IF fail = "reply"
        THEN \* reply_text raises inside the try, after the write
             Result(SaveErrorState, sh2, ud, <<"save_error">>, NoMenu, "reply", eff)
        ELSE Result("EDITING", sh2, ud, <<"saved">> \o menu.msgs, menu, menu.raised, eff)

----------------------------------------------------------------------------
(* Commands                                                                *)

cmd_start_run(sh, ud, u) ==
  IF ~check_authorized(u)
  THEN Reply("None", sh, ud, "unauthorized")
  ELSE Reply("BULK_DATA", sh, ud, "start_prompt")

cmd_cancel_run(sh, ud, u) ==
  IF ~check_authorized(u)
  THEN Reply("END", sh, ud, "unauthorized")
  ELSE Reply("END", sh, ud, "cancelled")

cmd_algorithm_run(sh, ud, u) ==
  IF ~check_authorized(u)
  THEN Reply("None", sh, ud, "unauthorized")
  ELSE Reply("None", sh, ud, "algorithm")

unknown_run(sh, ud, u) ==
  IF ~check_authorized(u)
  THEN Reply("None", sh, ud, "unauthorized")
  ELSE Reply("None", sh, ud, "unknown_command")

unhandled_run_enters_editing(sh, ud, u) ==
  Result("EDITING", sh, ud, << >>, NoMenu, "none", NoEffect)

(* an update no handler takes: nothing runs, nothing is sent               *)
unhandled_run(sh, ud, u) == Result("None", sh, ud, << >>, NoMenu, "none", NoEffect)

----------------------------------------------------------------------------
(* Inputs                                                                  *)

(* lead texts a user pastes                                                *)
LeadPhone ==
  <<"Imya klienta:", " ", "Ivan", "\n", "Telefon:", " ", "+", "7", "1", "2", "3", "4", "5">>

LeadMessenger == <<"Imya klienta:", " ", "Ana", "\n", "Messendzher:", " ", "Telegram", " ">>

LeadNoName == <<"Telefon:", " ", "+", "7", "1", "2", "3", "4", "5">>

LeadNoContact == <<"Imya klienta:", " ", "Ivan", "\n", "Email:", " ", "x", "@", "y", ".", "com">>

LeadShortPhone == <<"Imya klienta:", " ", "Ivan", "\n", "Telefon:", " ", "1", "2", "3", "4", "5">>

(* a name, a messenger preference and a phone of five digits               *)
LeadBadPhone ==
  <<"Imya klienta:", " ", "Ana", "\n", "Telefon:", " ", "1", "2", "3", "4", "5", "\n",
    "Messendzher:", " ", "Telegram">>

(* a name, a phone and an email without a top-level domain                 *)
LeadBadEmail ==
  <<"Imya klienta:", " ", "Ivan", "\n", "Telefon:", " ", "+", "7", "1", "2", "3", "4", "5",
    "\n", "Email:", " ", "x", "@", "y">>

(* the phone +34600111222                                                  *)
LeadSpain ==
  <<"Imya klienta:", " ", "Ana", "\n", "Telefon:", " ", "+", "3", "4", "6", "0", "0", "1",
    "1", "1", "2", "2", "2">>

(* a WhatsApp number as the only phone, and an explicit region             *)
LeadRegion ==
  <<"Imya klienta:", " ", "Ivan", "\n", "WhatsApp:", " ", "+", "1", "2", "3", "4", "5", "6",
    "\n", "Region:", " ", "Dubai">>

LeadTexts == {LeadPhone, LeadMessenger, LeadNoName, LeadNoContact, LeadShortPhone}

(* the lead texts of the runs that look at intake                          *)
IntakeTexts == LeadTexts \cup {LeadBadPhone, LeadBadEmail, LeadSpain, LeadRegion}

(* the lead texts of the runs with two users on the allow-list             *)
PairTexts == {LeadPhone, LeadMessenger}

(* free texts a user sends while editing                                   *)
FreeTexts == {<<"a">>, <<"b">>}

(* the lead rows of the sheet                                              *)
LeadRows(sh) == 2..Len(sh)

(* the buttons of the rendered menus that the model presses                *)
PressedFields == {"src", "noop", "finish", "input"}

PressedInputs == {"notes", "budget"}

Pressed(b) ==
  /\ b.callback_data[1] \in PressedFields
  /\ b.callback_data[1] = "input" => b.callback_data[3] \in PressedInputs

(* the keyboard of the menu show_main_menu sends for a row                 *)
MenuOf(sh, row) == Keyboard(RowValues(sh, row), row)

(* the tokens of the buttons a user can press: those of the menus sent    *)
(* for the given rows                                                      *)
MenuTokens(sh, rows) ==
  UNION {{b.callback_data : b \in {x \in Buttons(MenuOf(sh, r)) : Pressed(x)}} :
           r \in rows}

(* callback data no menu of this program carries                           *)
ForeignTokens(rows) ==
  UNION {{Data("tz", "gmt3", r), Data("region", "x", r), Data("src", "zzz", r),
          Data("noop", "x", r)} : r \in rows}
  \cup {<<"src", ":", "tg">>, <<"src", ":", "tg", ":", "x">>}

Tokens(sh, rows) == MenuTokens(sh, rows) \cup ForeignTokens(rows)

----------------------------------------------------------------------------
(* The dispatcher and the specification                                    *)

(* ConversationHandler.update_state                                        *)
update_state(c, u, ret) ==
  IF ret = "None" THEN c ELSE [c EXCEPT ![u] = ret]

NoUpdate ==
  [user |-> 0, update |-> "none", handler |-> "none", input |-> << >>, from |-> "END",
   msgs |-> << >>, menu_row |-> 0, raised |-> "none", eff |-> NoEffect]

(* one update of user u taken by a handler whose run yields r              *)
Handle(u, update, handler, input, r) ==
  /\ steps < MaxSteps
  /\ steps' = steps + 1
  /\ sheet' = r.sheet
  /\ conv' = update_state(conv, u, r.ret)
  /\ user_data' = [user_data EXCEPT ![u] = r.ud]
  /\ prev' = [user |-> last.user, eff |-> last.eff]
  /\ last' = [user |-> u, update |-> update, handler |-> handler, input |-> input,
              from |-> conv[u], msgs |-> r.msgs, menu_row |-> r.menu_row,
              raised |-> r.raised, eff |-> r.eff]
  /\ shown' = IF r.menu_row = 0 THEN shown
               ELSE [shown EXCEPT ![u] = @ \cup {r.menu_row}]
  /\ owner' = IF r.eff.op = "append" THEN Append(owner, u) ELSE owner
  /\ rendered' =
       LET sent == IF r.menu_row = 0 THEN {}
                   ELSE {[row |-> r.menu_row, menu |-> r.menu]}
       IN  IF r.eff.op # "none" THEN sent ELSE rendered \cup sent
  /\ UNCHANGED <<AUTHORIZED_USERS, leads, arg, out>>

(* the bot after start-up: the header row, no conversation, no update yet  *)
Started ==
  /\ sheet = <<REQUIRED_HEADERS>>
  /\ conv = [u \in Users |-> "END"]
  /\ user_data = [u \in Users |-> NoUserData]
  /\ last = NoUpdate
  /\ prev = [user |-> 0, eff |-> NoEffect]
  /\ steps = 0
  /\ shown = [u \in Users |-> {}]
  /\ owner = <<0>>
  /\ rendered = {}

(* one user on the allow-list, one outside it                              *)
Init ==
  /\ Started
  /\ AUTHORIZED_USERS = {1}
  /\ leads = LeadTexts
  /\ arg = << >>
  /\ out = NoOut

(* /start outside a conversation: the entry point                          *)
cmd_start ==
  \E u \in Users :
    /\ conv[u] = "END"
    /\ Handle(u, "/start", "cmd_start", << >>, cmd_start_run(sheet, user_data[u], u))

(* /cancel inside a conversation: the fallback                             *)
cmd_cancel ==
  \E u \in Users :
    /\ conv[u] # "END"
    /\ Handle(u, "/cancel", "cmd_cancel", << >>, cmd_cancel_run(sheet, user_data[u], u))

cmd_algorithm ==
  \E u \in Users :
    Handle(u, "/algorithm", "cmd_algorithm", << >>,
           cmd_algorithm_run(sheet, user_data[u], u))

(* a command the conversation does not take: /start inside a conversation, *)
(* /cancel outside one, any other command                                  *)
unknown ==
  \E u \in Users, cmd \in {"/start", "/cancel", "/other"} :
    /\ cmd = "/start" => conv[u] # "END"
    /\ cmd = "/cancel" => conv[u] = "END"
    /\ Handle(u, cmd, "unknown", << >>, unknown_run(sheet, user_data[u], u))

(* a text message outside a conversation, a button press outside EDITING   *)
unhandled ==
  \E u \in Users, update \in {"text", "callback"} :
    /\ update = "text" => conv[u] = "END"
    /\ update = "callback" => conv[u] # "EDITING"
    /\ Handle(u, update, "none", << >>, unhandled_run(sheet, user_data[u], u))

(* a text message in BULK_DATA                                             *)
process_lead ==
  \E u \in Users :
    /\ conv[u] = "BULK_DATA"
    /\ steps < MaxSteps
    /\ \E text \in leads, fail \in IntakeFails :
         Handle(u, "text", "process_lead", text,
                process_lead_run(sheet, user_data[u], u, text, fail))

(* a button press in EDITING                                               *)
handle_button ==
  \E u \in Users :
    /\ conv[u] = "EDITING"
    /\ steps < MaxSteps
    /\ \E token \in Tokens(sheet, shown[u]), fail \in EditFails :
         Handle(u, "callback", "handle_button", token,
                handle_button_run(sheet, user_data[u], u, token, fail))

(* a text message in EDITING                                               *)
handle_text_input ==
  \E u \in Users :
    /\ conv[u] = "EDITING"
    /\ steps < MaxSteps
    /\ \E message \in FreeTexts, fail \in EditFails :
         Handle(u, "text", "handle_text_input", message,
                handle_text_input_run(sheet, user_data[u], u, message, fail))

Next ==
  \/ cmd_start
  \/ cmd_cancel
  \/ cmd_algorithm
  \/ unknown
  \/ unhandled
  \/ process_lead
  \/ handle_button
  \/ handle_text_input

Spec == Init /\ [][Next]_vars

(* the same bot with users who paste the wider set of lead texts           *)
InitIntake ==
  /\ Started
  /\ AUTHORIZED_USERS = {1}
  /\ leads = IntakeTexts
  /\ arg = << >>
  /\ out = NoOut

SpecIntake == InitIntake /\ [][Next]_vars

(* the same bot with both users on the allow-list                          *)
InitPair ==
  /\ Started
  /\ AUTHORIZED_USERS = Users
  /\ leads = PairTexts
  /\ arg = << >>
  /\ out = NoOut

SpecPair == InitPair /\ [][Next]_vars

----------------------------------------------------------------------------
(* The inference functions on their own                                    *)

(* the leading digits of the phone candidates explored                     *)
PhoneDigits == {"1", "3", "4", "7", "9"}

(* phone candidates: with and without '+', three leading digits, then a    *)
(* fixed tail, six digits in all                                           *)
Phones ==
  {sign \o <<d1, d2, d3>> \o <<"1", "1", "2">> :
     sign \in {<< >>, <<"+">>}, d1 \in PhoneDigits, d2 \in PhoneDigits, d3 \in PhoneDigits}

InitInfer ==
  /\ Started
  /\ AUTHORIZED_USERS = {1}
  /\ leads = LeadTexts
  /\ arg \in Phones
  /\ out = NoOut

infer_tz ==
  /\ ~out.tz_done
  /\ out' = [out EXCEPT !.tz_done = TRUE, !.tz = guess_tz_by_phone(arg)]
  /\ UNCHANGED <<botvars, arg>>

infer_region ==
  /\ ~out.region_done
  /\ out' = [out EXCEPT !.region_done = TRUE, !.region = guess_region_by_phone(arg)]
  /\ UNCHANGED <<botvars, arg>>

NextInfer ==
  \/ infer_tz
  \/ infer_region

SpecInfer == InitInfer /\ [][NextInfer]_vars

(* the lexemes of the UTM strings explored and their greatest length       *)
UtmLex == {"k", "v", "=", "&", "|", " "}

MaxUtmLen == 4

UtmExample ==
  <<"utm_source", "=", "tg", "&", "utm_medium", "=", "bot", "|", "ref", "=", "1", "2", "3">>

UtmStrings ==
  UNION {[1..n -> UtmLex] : n \in 0..MaxUtmLen} \cup {UtmExample}

InitUtm ==
  /\ Started
  /\ AUTHORIZED_USERS = {1}
  /\ leads = LeadTexts
  /\ arg \in UtmStrings
  /\ out = NoOut

parse_utm ==
  /\ ~out.utm_done
  /\ out' = [out EXCEPT !.utm_done = TRUE, !.utm = parse_utm_details(arg)]
  /\ UNCHANGED <<botvars, arg>>

SpecUtm == InitUtm /\ [][parse_utm]_vars

----------------------------------------------------------------------------
(* The menu on its own: show_main_menu on a stored lead row, one press of  *)
(* a button of that menu, and the text that follows a free-text trigger    *)

(* the row process_lead stores for a lead that passes validation           *)
StoredLead == LeadRow(parse_lead_text(Strip(LeadMessenger)))

(* the values the cell of an option field can hold: an option's canonical  *)
(* value written by a toggle, or a stripped text written by a free-text    *)
(* submission for that column                                              *)
CellTexts(f) ==
  {OPTIONS_MAP[f][o] : o \in DOMAIN OPTIONS_MAP[f]}
  \cup {Lower(OPTIONS_MAP[f][o]) : o \in DOMAIN OPTIONS_MAP[f]}
  \cup FreeTexts

(* the stored lead with one option field set                               *)
MenuRows ==
  {StoredLead}
  \cup UNION {{[StoredLead EXCEPT ![FIELD_TO_COL[f]] = v] : v \in CellTexts(f)} :
               f \in DOMAIN OPTIONS_MAP}

(* the sheet holding the headers and one lead row                          *)
MenuSheet(row_vals) == <<REQUIRED_HEADERS, row_vals>>

InitMenu ==
  /\ Started
  /\ AUTHORIZED_USERS = {1}
  /\ leads = LeadTexts
  /\ arg \in MenuRows
  /\ out = NoOut

(* show_main_menu for the lead row                                         *)
render_menu ==
  /\ ~out.menu_done
  /\ out' = [out EXCEPT !.menu_done = TRUE,
                        !.menu = show_main_menu(MenuSheet(arg),
                                                new_row_index(MenuSheet(arg)), "none").menu]
  /\ UNCHANGED <<botvars, arg>>

(* handle_button for one button of the rendered menu                       *)
press_button ==
  /\ out.menu_done
  /\ out.press = << >>
  /\ \E u \in AUTHORIZED_USERS, b \in Buttons(out.menu) :
       LET r == handle_button_run(MenuSheet(arg), out.ud, u, b.callback_data, "none")
       IN  /\ arg' = r.sheet[Len(r.sheet)]
           /\ out' = [out EXCEPT !.press = b.callback_data, !.before = arg,
                                 !.replies = r.msgs, !.menu = r.menu, !.ud = r.ud]
  /\ UNCHANGED botvars

(* handle_text_input for the text sent after a free-text trigger           *)
submit_text ==
  /\ out.ud.has
  /\ ~out.text_done
  /\ \E u \in AUTHORIZED_USERS, message \in FreeTexts :
       LET r == handle_text_input_run(MenuSheet(arg), out.ud, u, message, "none")
       IN  /\ arg' = r.sheet[Len(r.sheet)]
           /\ out' = [out EXCEPT !.text_done = TRUE, !.before = arg,
                                 !.replies = r.msgs, !.menu = r.menu]
  /\ UNCHANGED botvars

NextMenu == render_menu \/ press_button \/ submit_text

SpecMenu == InitMenu /\ [][NextMenu]_vars

----------------------------------------------------------------------------
(* Properties                                                              *)

(* the cell the last update wrote                                          *)
LastCell == CellValue(sheet, last.eff.row, last.eff.col)

(* the last two updates were successful toggles of the same option of the  *)
(* same field of the same row                                              *)
TogglePair ==
  /\ prev.eff.op = "toggle"
  /\ last.eff.op = "toggle"
  /\ last.eff.field = prev.eff.field
  /\ last.eff.opt = prev.eff.opt
  /\ last.eff.row = prev.eff.row

(* the cell did not hold the option's value, in any case, before the first *)
(* toggle of the pair                                                      *)
PairStartsUnselected == Lower(prev.eff.before) # Lower(prev.eff.arg)

(* C1 as stated: whatever the cell held, the same toggle applied twice in  *)
(* succession leaves the cell empty, and between the two applications the  *)
(* cell holds the option's canonical display value.                        *)
C1_ToggleTwiceAnyValue ==
  TogglePair => (last.eff.before = prev.eff.arg /\ LastCell = << >>)

(* C1 amended: when the cell does not already hold the option's canonical  *)
(* value (compared in lower case), the same toggle applied twice in        *)
(* succession leaves the cell empty, and between the two applications the  *)
(* cell holds the option's canonical display value.                        *)
C1_ToggleTwiceFromUnselected ==
  (TogglePair /\ PairStartsUnselected) =>
    (last.eff.before = prev.eff.arg /\ LastCell = << >>)

(* a pair of equal toggles on a cell that held the other option's value    *)
C1_Witness ==
  /\ TogglePair
  /\ prev.eff.before = <<"Drugoy">>
  /\ prev.eff.arg = <<"Telegram">>
  /\ LastCell = << >>

(* C2: after a free-text submission was written to the store the awaiting- *)
(* text pointer of the sender is unset, and a further text message of that *)
(* sender right after it writes nothing, is answered "no pending field"    *)
(* and puts the session in AwaitingLead.                                   *)
C2_PointerClearedAfterSave ==
  /\ last.eff.op = "text" => ~user_data[last.user].has
  /\ (prev.eff.op = "text" /\ last.user = prev.user
        /\ last.handler = "handle_text_input")
       => (last.eff.op = "none" /\ last.msgs = <<"no_pending">>
             /\ conv[last.user] = "BULK_DATA")

(* C3: a finish press leaves the session in AwaitingLead with the          *)
(* awaiting-text pointer unset.                                            *)
C3_FinishClearsPointer ==
  (last.handler = "handle_button" /\ last.msgs = <<"finish">>)
    => (conv[last.user] = "BULK_DATA" /\ ~user_data[last.user].has)

(* C4: when a store write (append_row, update_cell) raised while the last  *)
(* update was handled, the sender's conversation state is what it was      *)
(* before the update.                                                      *)
C4_WriteFailureKeepsState ==
  last.raised \in {"append_row", "update_cell"} => conv[last.user] = last.from

(* C5: when a store read (row_values for the menu, cell for a toggle or a  *)
(* notes append) raised while the last update was handled, the sender's    *)
(* conversation state is what it was before the update.                    *)
C5_ReadFailureKeepsState ==
  last.raised \in {"row_values", "cell"} => conv[last.user] = last.from

(* C6: every callback token of a menu just rendered splits on ':' into     *)
(* exactly three parts, and a press on a control of a menu of an existing  *)
(* row is never answered as a malformed token.                             *)
C6_TokensHaveThreeParts ==
  /\ last.menu_row # 0 =>
       \A b \in Buttons(MenuOf(sheet, last.menu_row)) :
         Len(Split(b.callback_data, ":")) = 3
  /\ (last.handler = "handle_button"
        /\ \E r \in LeadRows(sheet) : \E b \in Buttons(MenuOf(sheet, r)) :
             b.callback_data = last.input)
       => last.msgs # <<"bad_callback">>

(* the last update was a button press whose token is not three parts       *)
MalformedPress ==
  last.handler = "handle_button" /\ Len(Split(last.input, ":")) # 3

(* C7: a button press whose token does not split into exactly three parts  *)
(* writes nothing to the store, leaves every conversation state and every  *)
(* awaiting-text pointer as they were and is answered with the protocol    *)
(* error reply.                                                            *)
C7_MalformedTokenKeepsState ==
  [][MalformedPress' =>
       (sheet' = sheet /\ conv' = conv /\ user_data' = user_data
          /\ last'.msgs = <<"bad_callback">>)]_vars

(* a malformed press in EDITING with a pointer set                         *)
C7_Witness ==
  /\ MalformedPress
  /\ last.from = "EDITING"
  /\ user_data[last.user].has
  /\ last.msgs = <<"bad_callback">>

(* the last two updates were successful free-text submissions "a" then "b" *)
(* to the same field of the same row, whose cell was empty before the      *)
(* first                                                                   *)
TextPair ==
  /\ prev.eff.op = "text"
  /\ last.eff.op = "text"
  /\ last.eff.field = prev.eff.field
  /\ last.eff.row = prev.eff.row
  /\ prev.eff.before = << >>
  /\ prev.eff.arg = <<"a">>
  /\ last.eff.arg = <<"b">>

(* C8: after the submissions "a" then "b" to an empty free-text field the  *)
(* notes cell holds "a; b" and the cell of any other field holds "b".      *)
C8_NotesAppendOthersOverwrite ==
  TextPair =>
    LastCell = IF last.eff.field = <<"notes">> THEN <<"a", ";", " ", "b">> ELSE <<"b">>

(* "a" then "b" submitted to the notes of a lead row                       *)
C8_Witness ==
  /\ TextPair
  /\ last.eff.field = <<"notes">>
  /\ last.eff.row \in LeadRows(sheet)
  /\ LastCell = <<"a", ";", " ", "b">>

(* C9: an update of a user outside AUTHORIZED_USERS, of whatever kind,     *)
(* never changes the sheet.                                                *)
C9_UnauthorizedNeverWrites ==
  [][last'.user \notin AUTHORIZED_USERS => sheet' = sheet]_vars

(* an unauthorized user sent /start and was turned away, with a lead in    *)
(* the sheet                                                               *)
C9_Witness ==
  /\ last.user \in Users \ AUTHORIZED_USERS
  /\ last.handler = "cmd_start"
  /\ last.msgs = <<"unauthorized">>
  /\ conv[last.user] = "END"
  /\ Len(sheet) > 1

(* the last update was a lead text that validation rejected                *)
LeadRejected ==
  /\ last.handler = "process_lead"
  /\ last.msgs # << >>
  /\ last.msgs[1] \in ValidationReplies

(* C10: a lead text rejected by validation appends no row and leaves the   *)
(* sender in AwaitingLead.                                                 *)
C10_RejectedLeadStoresNothing ==
  [][LeadRejected' => (sheet' = sheet /\ conv'[last'.user] = "BULK_DATA")]_vars

(* a lead without a name was rejected                                      *)
C10_Witness ==
  /\ LeadRejected
  /\ last.input = LeadNoName
  /\ last.msgs = <<"no_name">>

(* what the lead text carries after the first label of field f, on the     *)
(* label's own line, without the surrounding whitespace                    *)
RawValue(t, f) ==
  IF Occurrences(t, f) = {} THEN << >>
  ELSE LET i == CHOOSE k \in Occurrences(t, f) : \A j \in Occurrences(t, f) : k <= j
           r == After(t, i)
       IN  Strip(SubSeq(r, 1, LineRun(r)))

(* the phone candidate as the text gives it: the Phone value, else the     *)
(* WhatsApp value                                                          *)
RawPhoneCandidate(t) ==
  IF RawValue(t, "Telefon") # << >> THEN RawValue(t, "Telefon") ELSE RawValue(t, "WhatsApp")

(* the last update was a lead text of an authorized user                   *)
LeadHandled ==
  last.handler = "process_lead" /\ last.msgs # <<"unauthorized">>

(* C11: a lead text whose phone candidate is present after its label and   *)
(* is not an optional '+' and 6 to 15 digits is answered with the invalid  *)
(* phone reply and appends no row, here for the texts that also supply a   *)
(* name and a messenger preference.                                        *)
C11_MalformedPhoneRejected ==
  (LeadHandled /\ RawPhoneCandidate(last.input) # << >>
     /\ ~validate_phone(RawPhoneCandidate(last.input))
     /\ RawValue(last.input, "Imya klienta") # << >>
     /\ RawValue(last.input, "Messendzher") # << >>)
    => (last.msgs = <<"bad_phone">> /\ last.eff.op = "none")

(* C12: a lead text whose Email value is present after its label and does  *)
(* not have the local@domain.tld shape is answered with the invalid email  *)
(* reply and appends no row.                                               *)
C12_MalformedEmailRejected ==
  (LeadHandled /\ RawValue(last.input, "Email") # << >>
     /\ ~validate_email(RawValue(last.input, "Email")))
    => (last.msgs = <<"bad_email">> /\ last.eff.op = "none")

(* C13: every lead row of the sheet has a non-empty name and a non-empty   *)
(* phone, WhatsApp or messenger preference cell.                           *)
C13_RowsHaveNameAndContact ==
  \A r \in LeadRows(sheet) :
    /\ sheet[r][1] # << >>
    /\ sheet[r][2] # << >> \/ sheet[r][4] # << >> \/ sheet[r][6] # << >>

(* a row stored with a messenger preference only has been edited, and a    *)
(* lead without a contact channel was turned away before                   *)
C13_Witness ==
  /\ Len(sheet) > 1
  /\ sheet[2][2] = << >> /\ sheet[2][4] = << >> /\ sheet[2][6] # << >>
  /\ last.eff.op \in {"toggle", "text"}
  /\ last.eff.row = 2
  /\ C13_RowsHaveNameAndContact

(* C14: after a /cancel the sender is out of the conversation and holds no *)
(* awaiting-text pointer.                                                  *)
C14_CancelClearsSession ==
  last.handler = "cmd_cancel"
    => (conv[last.user] = "END" /\ ~user_data[last.user].has)

(* the columns of the region and of the timezone process_lead computes     *)
RegionCol == 11

TimezoneCol == 14

(* C15: a toggle or a free-text submission on a lead row leaves the row's  *)
(* region cell and its timezone cell as they were.                         *)
C15_EditsKeepRegionAndTimezone ==
  (last.eff.op \in {"toggle", "text"} /\ last.eff.row \in LeadRows(sheet)
     /\ last.eff.col \in {RegionCol, TimezoneCol})
    => LastCell = last.eff.before

(* C16: right after an intake that appended a row, the cell of every field *)
(* code of FIELD_TO_COL in that row is empty.                              *)
C16_EnrichableFieldsStartEmpty ==
  last.eff.op = "append"
    => \A f \in DOMAIN FIELD_TO_COL :
         CellValue(sheet, last.eff.row, FIELD_TO_COL[f]) = << >>

(* the country-code prefixes the program knows, with the region of each    *)
KnownRegion ==
  [k \in 1..Len(COUNTRY_TZ_MAP) |->
    CASE COUNTRY_TZ_MAP[k].ccode = <<"3", "4">> -> <<"Spain">>
      [] COUNTRY_TZ_MAP[k].ccode = <<"7">> -> <<"Russia">>
      [] COUNTRY_TZ_MAP[k].ccode = <<"1">> -> <<"USA">>]

(* the known prefixes the digits of a phone that starts with '+' begin     *)
(* with; none for a phone without '+'                                      *)
MatchingPrefixes(phone) ==
  IF StartsWith(phone, <<"+">>)
  THEN {k \in 1..Len(COUNTRY_TZ_MAP) : StartsWith(Tail(phone), COUNTRY_TZ_MAP[k].ccode)}
  ELSE {}

LongestPrefix(ks) ==
  CHOOSE k \in ks :
    \A j \in ks : Len(COUNTRY_TZ_MAP[j].ccode) <= Len(COUNTRY_TZ_MAP[k].ccode)

(* C17: for a phone that starts with '+' and whose digits start with a     *)
(* known prefix, the inferred timezone and region are those of the longest *)
(* matching prefix; for any other phone they are the sentinels.            *)
C17_InferenceByLongestPrefix ==
  LET ks == MatchingPrefixes(arg)
  IN  /\ out.tz_done =>
           out.tz = IF ks = {} THEN <<"Drugoy">> ELSE COUNTRY_TZ_MAP[LongestPrefix(ks)].tz
      /\ out.region_done =>
           out.region = IF ks = {} THEN <<"Unknown">> ELSE KnownRegion[LongestPrefix(ks)]

(* both functions were applied to a phone that starts with +34             *)
C17_Witness ==
  /\ StartsWith(arg, <<"+", "3", "4">>)
  /\ out.tz_done /\ out.tz = <<"GMT+1">>
  /\ out.region_done /\ out.region = <<"Spain">>

(* the phone candidate of a stored row: its phone cell, else its WhatsApp  *)
(* cell                                                                    *)
StoredPhone(row) == IF row[2] # << >> THEN row[2] ELSE row[4]

(* C18: the row an intake appended for a lead with a phone candidate p     *)
(* holds the timezone inferred from p and, as region, the Region of the    *)
(* lead text when it gives one, else the region inferred from p; for the   *)
(* phone +34600111222 without a region these are GMT+1 and Spain.          *)
C18_StoredRegionAndTimezone ==
  last.eff.op = "append" =>
    LET row == sheet[last.eff.row]
        p == StoredPhone(row)
        region == RawValue(last.input, "Region")
    IN  /\ p # << >> =>
             /\ row[TimezoneCol] = guess_tz_by_phone(p)
             /\ row[RegionCol] = IF region # << >> THEN region ELSE guess_region_by_phone(p)
        /\ last.input = LeadSpain =>
             (row[TimezoneCol] = <<"GMT+1">> /\ row[RegionCol] = <<"Spain">>)

(* a lead with an explicit region is stored in row 2 with that region, and *)
(* the lead with the phone +34600111222 has just been stored in row 3      *)
C18_Witness ==
  /\ Len(sheet) = 3
  /\ sheet[2][RegionCol] = <<"Dubai">> /\ sheet[2][TimezoneCol] = <<"GMT-5">>
  /\ last.eff.op = "append" /\ last.eff.row = 3
  /\ last.input = LeadSpain
  /\ sheet[3][RegionCol] = <<"Spain">> /\ sheet[3][TimezoneCol] = <<"GMT+1">>

(* s split at every lexeme that is in seps                                 *)
RECURSIVE SplitOn(_, _)
SplitOn(s, seps) ==
  IF \A i \in 1..Len(s) : s[i] \notin seps
  THEN <<s>>
  ELSE LET i == CHOOSE k \in 1..Len(s) : s[k] \in seps /\ \A j \in 1..(k - 1) : s[j] \notin seps
       IN  <<SubSeq(s, 1, i - 1)>> \o SplitOn(SubSeq(s, i + 1, Len(s)), seps)

(* the trimmed, non-empty tokens of a UTM string, in order                 *)
UtmTokens(s) ==
  LET parts == SplitOn(s, {"|", "&"})
      keep == {i \in 1..Len(parts) : Strip(parts[i]) # << >>}
      nth(n) == CHOOSE i \in keep : Cardinality({j \in keep : j <= i}) = n
  IN  [n \in 1..Cardinality(keep) |-> Strip(parts[nth(n)])]

(* a token rendered: key = value around its first '=', else the token      *)
UtmLine(t) ==
  LET eqs == {i \in 1..Len(t) : t[i] = "="}
  IN  IF eqs = {} THEN t
      ELSE LET i == CHOOSE k \in eqs : \A j \in eqs : k <= j
           IN  Strip(SubSeq(t, 1, i - 1)) \o <<" ", "=", " ">> \o Strip(SubSeq(t, i + 1, Len(t)))

(* C20: the UTM breakdown of the empty str is the not-provided sentinel,   *)
(* of a str without tokens the empty sentinel, and otherwise the header    *)
(* followed by one line per trimmed non-empty token of the str split on    *)
(* '|' and '&', a token with '=' rendered as key = value around its first  *)
(* '=' and any other token as it is; the example string gives the lines    *)
(* utm_source = tg, utm_medium = bot, ref = 123.                           *)
C20_UtmDecomposition ==
  out.utm_done =>
    LET tokens == UtmTokens(arg)
    IN  /\ arg = << >> => out.utm = <<"UTM-dannye: (ne ukazany)">>
        /\ (arg # << >> /\ tokens = << >>) => out.utm = <<"UTM-dannye: (pusto)">>
        /\ tokens # << >> =>
             /\ SubSeq(out.utm, 1, 2) = <<"UTM-dannye:", "\n">>
             /\ Split(SubSeq(out.utm, 3, Len(out.utm)), "\n")
                  = [n \in 1..Len(tokens) |-> UtmLine(tokens[n])]
        /\ arg = UtmExample =>
             out.utm = <<"UTM-dannye:", "\n", "utm_source", " ", "=", " ", "tg", "\n",
                         "utm_medium", " ", "=", " ", "bot", "\n",
                         "ref", " ", "=", " ", "1", "2", "3">>

(* the example string has been decomposed into its three lines             *)
C20_Witness ==
  /\ arg = UtmExample
  /\ out.utm_done
  /\ Len(Split(SubSeq(out.utm, 3, Len(out.utm)), "\n")) = 3

(* every menu a user was sent is for a row that user's own lead text       *)
(* appended, every awaiting-text pointer names such a row, the last edit   *)
(* went to such a row, and the menu sent after an intake is for the row    *)
(* that intake appended                                                    *)
OwnRows ==
  /\ \A u \in Users : \A r \in shown[u] : r \in LeadRows(sheet) /\ owner[r] = u
  /\ \A u \in Users :
       user_data[u].has =>
         (user_data[u].editing_row \in LeadRows(sheet)
            /\ owner[user_data[u].editing_row] = u)
  /\ last.eff.op \in {"toggle", "text"} =>
       (last.eff.row \in LeadRows(sheet) /\ owner[last.eff.row] = last.user)
  /\ (last.eff.op = "append" /\ last.menu_row # 0) => last.menu_row = last.eff.row

SelectingToggle ==
  /\ last.eff.op = "toggle"
  /\ last.msgs # << >> /\ last.msgs[1] = "updated"
  /\ Lower(last.eff.before) # Lower(last.eff.arg)

(* C21: a successful toggle on a cell that does not hold the option's      *)
(* value, whatever else it holds, writes the option's canonical value to   *)
(* that cell, changes no other cell of the sheet and leaves the sender in  *)
(* Editing.                                                                *)
C21_SelectWritesOneCell ==
  [][SelectingToggle' =>
       /\ last'.eff.before = CellValue(sheet, last'.eff.row, last'.eff.col)
       /\ last'.eff.arg = OPTIONS_MAP[last'.eff.field[1]][last'.eff.opt[1]]
       /\ sheet' = [sheet EXCEPT ![last'.eff.row][last'.eff.col] = last'.eff.arg]
       /\ conv'[last'.user] = "EDITING"]_vars

(* src:other was pressed on a row whose source cell held Telegram          *)
C21_Witness ==
  /\ SelectingToggle
  /\ last.eff.field = <<"src">> /\ last.eff.opt = <<"other">>
  /\ last.eff.before = <<"Telegram">>
  /\ LastCell = <<"Drugoy">>
  /\ conv[last.user] = "EDITING"

(* C24: rendering writes nothing to the store and keeps nothing between    *)
(* renders: all the menus rendered for a row since the last store write    *)
(* are the same keyboard (controls, markers and tokens, in order),         *)
(* whatever the conversation state and the pending free-text field were at *)
(* each render, and an update that only renders has no store effect.       *)
C24_RenderingIsPure ==
  /\ \A a \in rendered : \A b \in rendered : a.row = b.row => a.menu = b.menu
  /\ \A a \in rendered : a.menu = MenuOf(sheet, a.row)
  /\ (last.handler = "handle_button" /\ last.input # << >> /\ last.input[1] = "noop"
        /\ last.menu_row # 0)
       => last.eff.op = "none"

(* the menu of row 2 is rendered again by a noop press, after an update    *)
(* that wrote nothing set the pending free-text field                      *)
C24_Witness ==
  /\ last.handler = "handle_button" /\ last.input = Data("noop", "x", 2)
  /\ last.menu_row = 2
  /\ prev.eff.op = "none"
  /\ user_data[last.user].has
  /\ \E a \in rendered : a.row = 2

(* the last update was a toggle or a free-text submission answered with    *)
(* the update or save error reply                                          *)
ErrorReplied ==
  /\ last.handler \in {"handle_button", "handle_text_input"}
  /\ last.msgs # << >>
  /\ last.msgs[Len(last.msgs)] \in {"update_error", "save_error"}

(* C25: when a toggle or a free-text submission ends with the update or    *)
(* save error reply, the store is what it was before the event, also when  *)
(* the call that failed is the reply issued after the cell write.          *)
C25_ErrorReplyMeansNoWrite ==
  [][ErrorReplied' => sheet' = sheet]_vars

(* C26: a button press of a user whose conversation is in BULK_DATA is     *)
(* taken by no handler, writes nothing to the store and leaves the         *)
(* conversation in BULK_DATA; a button press writes to the store only in   *)
(* EDITING.                                                                *)
C26_PressOutsideEditingDoesNothing ==
  [][/\ (last'.update = "callback" /\ last'.from = "BULK_DATA")
          => /\ sheet' = sheet
             /\ last'.eff.op = "none"
             /\ conv'[last'.user] = "BULK_DATA"
     /\ (last'.update = "callback" /\ sheet' # sheet) => last'.from = "EDITING"]_vars

(* a press after finish, with the menu of the finished lead in the chat    *)
C26_Witness ==
  /\ last.update = "callback" /\ last.from = "BULK_DATA"
  /\ shown[last.user] # {}
  /\ Len(sheet) > 1
  /\ conv[last.user] = "BULK_DATA"

(* the option buttons of a keyboard: those that carry a marker             *)
OptionButtons(kb) == {b \in Buttons(kb) : b.icon # "none"}

(* the field code and the option code in the token of a button             *)
TokenField(b) == Split(b.callback_data, ":")[1]

TokenOption(b) == Split(b.callback_data, ":")[2]

(* the option codes of field f that the keyboard marks selected            *)
Marked(kb, f) ==
  {TokenOption(b) : b \in {x \in OptionButtons(kb) : TokenField(x) = f /\ x.icon = "selected"}}

(* C22: every option button of a rendered menu is marked selected exactly  *)
(* when the stored cell of the field in its token equals, in lower case,   *)
(* the value OPTIONS_MAP gives for the field and option in its token; so   *)
(* the menu rendered after a toggle that selected option o of field f      *)
(* marks o and no other option of f, and after a deselect it marks none.   *)
C22_MarkersFollowTheStoredCell ==
  /\ \A b \in OptionButtons(out.menu) :
       /\ IsKey(TokenField(b), OPTIONS_MAP)
       /\ IsKey(TokenOption(b), OPTIONS_MAP[TokenField(b)[1]])
       /\ b.icon = "selected"
            <=> Lower(arg[ColOf(TokenField(b))])
                  = Lower(OPTIONS_MAP[TokenField(b)[1]][TokenOption(b)[1]])
  /\ (out.press # << >> /\ out.replies # << >> /\ out.replies[1] = "updated")
       => LET f == Split(out.press, ":")[1]
              o == Split(out.press, ":")[2]
              selecting == Lower(out.before[ColOf(f)]) # Lower(OPTIONS_MAP[f[1]][o[1]])
          IN  /\ out.menu # << >>
              /\ Marked(out.menu, f) = IF selecting THEN {o} ELSE {}

(* src:other was pressed on a row whose source cell held Telegram: the     *)
(* menu rendered after it marks Drugoy and not Telegram                    *)
C22_Witness ==
  /\ out.press = Data("src", "other", 2)
  /\ out.before # << >> /\ out.before[13] = <<"Telegram">>
  /\ arg[13] = <<"Drugoy">>
  /\ Marked(out.menu, <<"src">>) = {<<"other">>}

(* C23: every option token of a rendered menu names a field with a column  *)
(* and an option of that field's option set, and every free-text trigger   *)
(* token names a field with a column; no press of a button of the menu is  *)
(* answered with the unknown-field or unknown-option reply, and no text    *)
(* sent after a free-text trigger with the bad-field reply.                *)
C23_MenuTokensAreKnown ==
  /\ \A b \in Buttons(out.menu) :
       LET d == Split(b.callback_data, ":")
       IN  /\ b.icon # "none" => Len(d) = 3
           /\ (Len(d) = 3 /\ d[1] = <<"input">>) => ColOf(d[2]) >= 1
           /\ (Len(d) = 3 /\ d[1] \notin {<<"input">>, <<"noop">>, <<"finish">>})
                => /\ ColOf(d[1]) >= 1
                   /\ IsKey(d[1], OPTIONS_MAP)
                   /\ IsKey(d[2], OPTIONS_MAP[d[1][1]])
  /\ \A i \in 1..Len(out.replies) :
       out.replies[i] \notin {"unknown_field", "unknown_option", "bad_field"}

(* the text sent after the preferences trigger was saved in its column     *)
C23_Witness ==
  /\ out.press = Data("input", "prefs", 2)
  /\ out.text_done
  /\ out.replies # << >> /\ out.replies[1] = "saved"
  /\ arg[29] = <<"a">>

====
